---- MODULE Spec2Model ----
(***************************************************************************)
(* Connect Four: the game state machine of src/components/ConnectFour.tsx. *)
(* The state is the React state of the component (gameState and            *)
(* dropAnimation) plus the window's pending setTimeout callbacks; the      *)
(* actions are the column button's click handler (dropPiece), the          *)
(* "New Game" button's handler (resetGame) and the expiry of a timer.      *)
(***************************************************************************)
EXTENDS Integers, Sequences, FiniteSets, TLC

ROWS == 6
COLS == 7

\* Bounds of the exploration
MaxDrops == 3       \* accepted drops explored after an opening / a reset
MaxTimers == 2      \* setTimeout callbacks pending at once

\* Cell = Player | null; reading past the end of a row array gives undefined
null == 0
undefined == -1
Player == {1, 2}

RowIdx == 0 .. (ROWS - 1)
ColIdx == 0 .. (COLS - 1)

\* The argument of dropPiece: the seven column buttons, and one index on
\* either side of the valid range.
InputCols == -1 .. COLS

VARIABLES
    gameState,      \* useState<GameState>: board, currentPlayer, winner,
                    \* winningCells, gameOver
    dropAnimation,  \* useState<{col, row} | null>
    rendered,       \* the gameState of the last render: the snapshot the
                    \* handlers created by that render close over
    timers,         \* number of setTimeout callbacks not yet run
    drops           \* accepted drops since the opening or the last reset
                    \* (bookkeeping for MaxDrops, not program state)

vars == <<gameState, rendered, dropAnimation, timers, drops>>

----------------------------------------------------------------------------
\* The initial values of the component's state

emptyBoard == [r \in RowIdx |-> [c \in ColIdx |-> null]]

\* useState<GameState>(() => ({ ... }))
initialState ==
    [ board        |-> emptyBoard,
      currentPlayer |-> 1,
      winner       |-> null,
      winningCells |-> << >>,
      gameOver     |-> FALSE ]

\* resetGame that leaves the turn with player 2
resetStateKeepsTurn ==
    [ board        |-> [r \in RowIdx |-> [c \in ColIdx |-> null]],
      currentPlayer |-> 2,
      winner       |-> null,
      winningCells |-> << >>,
      gameOver     |-> FALSE ]

\* the literal resetGame hands to setGameState
resetState ==
    [ board        |-> [r \in RowIdx |-> [c \in ColIdx |-> null]],
      currentPlayer |-> 1,
      winner       |-> null,
      winningCells |-> << >>,
      gameOver     |-> FALSE ]

\* dropAnimation is {col, row} | null: the empty set stands for null, a
\* singleton for the object
noAnimation == {}
animationAt(col, row) == {[col |-> col, row |-> row]}

----------------------------------------------------------------------------
\* checkWinner

\* the vertical axis listed before the horizontal one
directionsVerticalFirst == << <<1, 0>>, <<0, 1>>, <<1, 1>>, <<1, -1>> >>

directions == << <<0, 1>>, <<1, 0>>, <<1, 1>>, <<1, -1>> >>

\* the loop condition of both walks: in bounds and holding the player
matches(board, newRow, newCol, player) ==
    /\ newRow >= 0 /\ newRow < ROWS /\ newCol >= 0 /\ newCol < COLS
    /\ board[newRow][newCol] = player

\* a walk that stops after two cells (i < 3)
RECURSIVE walkShort(_, _, _, _, _, _, _)
walkShort(board, row, col, dx, dy, player, i) ==
    IF i < 3 /\ matches(board, row + dx * i, col + dy * i, player)
    THEN 1 + walkShort(board, row, col, dx, dy, player, i + 1)
    ELSE 0

\* number of cells one walk adds: i = 1, 2, 3 until the first mismatch
RECURSIVE walk(_, _, _, _, _, _, _)
walk(board, row, col, dx, dy, player, i) ==
    IF i < 4 /\ matches(board, row + dx * i, col + dy * i, player)
    THEN 1 + walk(board, row, col, dx, dy, player, i + 1)
    ELSE 0

\* the negative walk appending (push) where the code prepends (unshift)
lineCellsPushed(board, row, col, dx, dy, player) ==
    LET pos == walk(board, row, col, dx, dy, player, 1)
        neg == walk(board, row, col, -dx, -dy, player, 1)
    IN  [k \in 1 .. (neg + 1 + pos) |->
            IF k <= 1 + pos
            THEN <<row + dx * (k - 1), col + dy * (k - 1)>>
            ELSE <<row - dx * (k - 1 - pos), col - dy * (k - 1 - pos)>>]

\* cells after push (positive walk) and unshift (negative walk)
lineCells(board, row, col, dx, dy, player) ==
    LET pos == walk(board, row, col, dx, dy, player, 1)
        neg == walk(board, row, col, -dx, -dy, player, 1)
    IN  [k \in 1 .. (neg + 1 + pos) |->
            <<row + dx * (k - 1 - neg), col + dy * (k - 1 - neg)>>]

\* the last 4 cells of the run returned (slice(-4))
RECURSIVE checkFromTail(_, _, _, _, _)
checkFromTail(board, row, col, player, d) ==
    IF d > Len(directions) THEN << >>
    ELSE LET cells == lineCells(board, row, col,
                                directions[d][1], directions[d][2], player)
         IN  IF Len(cells) >= 4 THEN SubSeq(cells, Len(cells) - 3, Len(cells))
             ELSE checkFromTail(board, row, col, player, d + 1)

RECURSIVE checkFrom(_, _, _, _, _)
checkFrom(board, row, col, player, d) ==
    IF d > Len(directions) THEN << >>
    ELSE LET cells == lineCells(board, row, col,
                                directions[d][1], directions[d][2], player)
         IN  IF Len(cells) >= 4 THEN SubSeq(cells, 1, 4)
             ELSE checkFrom(board, row, col, player, d + 1)

\* a loop over the directions that starts at the second entry
checkWinnerFromSecond(board, row, col, player) ==
    checkFrom(board, row, col, player, 2)

\* for (const [dx, dy] of directions) { ... } return []
checkWinner(board, row, col, player) == checkFrom(board, row, col, player, 1)

----------------------------------------------------------------------------
\* dropPiece

\* a loose comparison (== null): undefined counts as an empty cell
cellAtLoose(board, row, col) ==
    IF col \in ColIdx THEN board[row][col] ELSE null

\* newBoard[row][col]
cellAt(board, row, col) ==
    IF col \in ColIdx THEN board[row][col] ELSE undefined

\* a loop that falls back to row 0 when no cell of the column is null
RECURSIVE scanOverwrites(_, _, _)
scanOverwrites(board, col, row) ==
    IF row < 0 THEN (IF col \in ColIdx THEN 0 ELSE -1)
    ELSE IF cellAt(board, row, col) = null THEN row
    ELSE scanOverwrites(board, col, row - 1)

\* the for loop: the first row, from ROWS - 1 down to 0, whose cell is null;
\* -1 when the loop ends without finding one
RECURSIVE scan(_, _, _)
scan(board, col, row) ==
    IF row < 0 THEN -1
    ELSE IF cellAt(board, row, col) = null THEN row
    ELSE scan(board, col, row - 1)

\* a scan from the top: the first null cell from row 0 downwards
landingRowTop(board, col) ==
    IF col \in ColIdx /\ \E r \in RowIdx : board[r][col] = null
    THEN CHOOSE r \in RowIdx :
            board[r][col] = null /\ \A q \in RowIdx : q < r => board[q][col] # null
    ELSE -1

\* a scan that starts one row above the floor
landingRowOffByOne(board, col) == scan(board, col, ROWS - 2)

landingRow(board, col) == scan(board, col, ROWS - 1)

\* newBoard.every(row => row.every(cell => cell !== null))
isFull(board) == \A r \in RowIdx : \A c \in ColIdx : board[r][c] # null

\* a draw is never recognised
isDrawMissed(hasWinner, newBoard) == FALSE

\* the negation of hasWinner lost
isDrawWithWinner(hasWinner, newBoard) == hasWinner /\ isFull(newBoard)

\* const isDraw = !hasWinner && newBoard.every(...)
isDraw(hasWinner, newBoard) == ~hasWinner /\ isFull(newBoard)

\* the turn never passes
nextPlayerStuck(currentPlayer, hasWinner, draw) == currentPlayer

\* the turn passes after every placement, the last one included
nextPlayerAlways(currentPlayer, hasWinner, draw) ==
    IF currentPlayer = 1 THEN 2 ELSE 1

\* currentPlayer: hasWinner || isDraw ? currentPlayer : (currentPlayer === 1 ? 2 : 1)
nextPlayer(currentPlayer, hasWinner, draw) ==
    IF hasWinner \/ draw THEN currentPlayer
    ELSE (IF currentPlayer = 1 THEN 2 ELSE 1)

\* the player who would have moved next is named the winner
winnerOfOpponent(currentPlayer, hasWinner) ==
    IF hasWinner THEN (IF currentPlayer = 1 THEN 2 ELSE 1) ELSE null

\* winner: hasWinner ? currentPlayer : null
winnerOf(currentPlayer, hasWinner) ==
    IF hasWinner THEN currentPlayer ELSE null

\* the state handed to setGameState
placed(gs, row, col) ==
    LET newBoard     == [gs.board EXCEPT ![row][col] = gs.currentPlayer]
        winningCells == checkWinner(newBoard, row, col, gs.currentPlayer)
        hasWinner    == Len(winningCells) > 0
        draw         == isDraw(hasWinner, newBoard)
    IN  [ board        |-> newBoard,
          currentPlayer |-> nextPlayer(gs.currentPlayer, hasWinner, draw),
          winner       |-> winnerOf(gs.currentPlayer, hasWinner),
          winningCells |-> winningCells,
          gameOver     |-> hasWinner \/ draw ]

\* does the call reach setGameState
accepts(gs, col) == ~gs.gameOver /\ landingRow(gs.board, col) >= 0

\* a guard that looks at the top cell only
canDropIgnoresEnd(gs, col) == gs.board[0][col] = null

\* canDropInColumn: !gameState.gameOver && gameState.board[0][col] === null
canDropInColumn(gs, col) == ~gs.gameOver /\ gs.board[0][col] = null

\* a guard that stops the game after a draw only: a won game plays on
dropPieceAfterWin(gs, col) ==
    IF gs.gameOver /\ gs.winner = null THEN gs
    ELSE LET row == landingRow(gs.board, col)
         IN  IF row >= 0 THEN placed(gs, row, col) ELSE gs

\* the gameState after dropPiece(col)
dropPiece(gs, col) ==
    IF gs.gameOver THEN gs
    ELSE LET row == landingRow(gs.board, col)
         IN  IF row >= 0 THEN placed(gs, row, col) ELSE gs

----------------------------------------------------------------------------
\* Openings: click sequences played from the initial state.  The exploration
\* starts after one of them, so that late positions (a board about to fill
\* up, a diagonal about to close) are within MaxDrops of a starting state.

\* 39 clicks of a game that ends in a draw after 3 more (3, 3, 3)
DrawLine ==
    <<4, 3, 6, 0, 1, 4, 5, 5, 1, 1, 5, 0, 1, 6, 0, 1, 5, 5, 1, 0, 4, 6, 3,
      2, 6, 6, 0, 4, 6, 5, 2, 0, 4, 2, 4, 2, 2, 2, 3>>

\* 39 clicks of a game that player 2 can win with the very last piece
\* (2, 5, 5)
LastPieceLine ==
    <<4, 5, 6, 4, 4, 4, 3, 4, 1, 2, 3, 2, 5, 3, 0, 6, 1, 1, 4, 6, 0, 2, 2,
      3, 0, 5, 6, 0, 3, 1, 1, 0, 0, 5, 3, 6, 1, 2, 6>>

\* player 2 is three drops from a diagonal through (5,0) .. (2,3)
DiagLineA == <<3, 0, 1, 3, 3, 3, 2>>

\* player 1 is three drops from a diagonal through (2,1) .. (5,4)
DiagLineB == <<1, 3, 2, 6, 4, 1, 3, 1>>

\* player 2 is three drops from a diagonal through (2,2) .. (5,5)
DiagLineC == <<3, 2, 2, 3, 2, 2, 4, 3, 3>>

\* player 1 has three pieces stacked in column 0, player 2 two side by side
\* on the floor
StackLine == <<0, 3, 0, 4, 0>>

\* player 1 holds the floor of columns 0, 1, 3, 4: column 2 closes a run of 5
FiveLine == <<0, 0, 1, 1, 3, 3, 4, 4>>

\* player 1 holds the floor of every column but 3: column 3 closes a run of 7
SevenLine == <<0, 0, 1, 1, 2, 2, 4, 4, 5, 5, 6, 6>>

\* player 1 closes a horizontal and a vertical run at once with column 2
CrossLine ==
    <<2, 3, 2, 1, 0, 1, 5, 4, 1, 0, 2, 3, 1, 0, 0, 3, 3, 4>>

\* player 1 closes a horizontal run and a diagonal at once with column 4
FloorDiagLine == <<1, 0, 3, 1, 3, 1, 2, 2, 2, 5, 1, 5>>

\* player 1 closes a vertical run and a diagonal at once with column 6
StackDiagLine == <<3, 2, 6, 4, 4, 5, 6, 5, 5, 5, 6, 0>>

\* player 2 closes both diagonals through (3,4) at once with column 4
BothDiagsLine == <<3, 3, 3, 2, 5, 5, 4, 6, 1, 3, 5, 5, 4>>

Openings ==
    { << >>, DrawLine, LastPieceLine, DiagLineA, DiagLineB, DiagLineC,
      StackLine, FiveLine, SevenLine, CrossLine, FloorDiagLine,
      StackDiagLine, BothDiagsLine }

\* the gameState after clicks i .. Len(clicks), played from gs: each click
\* is a call of dropPiece on the state the click before it left.  The test
\* of next.gameOver has TLC compute each state before it plays the next
\* click, which keeps the evaluation of a 39-click opening shallow.
RECURSIVE ReplayFrom(_, _, _)
ReplayFrom(gs, clicks, i) ==
    IF i > Len(clicks) THEN gs
    ELSE LET next == dropPiece(gs, clicks[i])
         IN  IF next.gameOver
             THEN ReplayFrom(next, clicks, i + 1)
             ELSE ReplayFrom(next, clicks, i + 1)

\* the gameState after the clicks, played from the initial state
Replay(clicks) == ReplayFrom(initialState, clicks, 1)

----------------------------------------------------------------------------
\* The state machine

Init ==
    /\ \E o \in Openings : gameState = Replay(o)
    /\ rendered = gameState
    /\ dropAnimation = noAnimation
    /\ timers = 0
    /\ drops = 0

\* onClick={() => dropPiece(col)}.  An accepted drop also sets the animation
\* and starts its timer; it is explored while the bounds allow one more drop
\* and one more pending timer.  A call that returns early changes nothing.
\* The component re-renders with the new state before the next event.
DropPiece(col) ==
    /\ IF accepts(gameState, col)
       THEN /\ drops < MaxDrops
            /\ timers < MaxTimers
            /\ gameState' = dropPiece(gameState, col)
            /\ dropAnimation' = animationAt(col, landingRow(gameState.board, col))
            /\ timers' = timers + 1
            /\ drops' = drops + 1
       ELSE /\ gameState' = dropPiece(gameState, col)
            /\ UNCHANGED <<dropAnimation, timers, drops>>
    /\ rendered' = gameState'

\* onClick={resetGame}: pending timers are not cancelled
ResetGame ==
    /\ gameState' = resetState
    /\ dropAnimation' = noAnimation
    /\ drops' = 0
    /\ rendered' = gameState'
    /\ UNCHANGED timers

\* a timer callback that also writes back the state of the first render
TimerFiresStale ==
    /\ timers > 0
    /\ timers' = timers - 1
    /\ dropAnimation' = noAnimation
    /\ gameState' = initialState
    /\ rendered' = gameState'
    /\ UNCHANGED drops

\* setTimeout(() => setDropAnimation(null), 600) expires
TimerFires ==
    /\ timers > 0
    /\ timers' = timers - 1
    /\ dropAnimation' = noAnimation
    /\ rendered' = gameState
    /\ UNCHANGED <<gameState, drops>>

Next ==
    \/ \E col \in InputCols : DropPiece(col)
    \/ ResetGame
    \/ TimerFires

Spec == Init /\ [][Next]_vars

----------------------------------------------------------------------------
\* Two events handled before the component re-renders.  dropPiece is
\* useCallback(..., [gameState, checkWinner]): it reads the gameState of the
\* render that created it, and setGameState is handed a value computed from
\* that snapshot, not an updater of the pending state.

InitBatched ==
    /\ gameState = initialState
    /\ rendered = initialState
    /\ dropAnimation = noAnimation
    /\ timers = 0
    /\ drops = 0

\* onClick={() => dropPiece(col)} of the last render, no render in between
DropPieceStale(col) ==
    IF accepts(rendered, col)
    THEN /\ drops < MaxDrops
         /\ timers < MaxTimers
         /\ gameState' = dropPiece(rendered, col)
         /\ dropAnimation' = animationAt(col, landingRow(rendered.board, col))
         /\ timers' = timers + 1
         /\ drops' = drops + 1
         /\ UNCHANGED rendered
    ELSE UNCHANGED vars

\* React renders the component with the pending state
Render ==
    /\ rendered # gameState
    /\ rendered' = gameState
    /\ UNCHANGED <<gameState, dropAnimation, timers, drops>>

NextBatched ==
    \/ \E col \in InputCols : DropPieceStale(col)
    \/ Render
    \/ TimerFires

SpecBatched == InitBatched /\ [][NextBatched]_vars

----------------------------------------------------------------------------
\* Vocabulary of the properties, defined on the board alone

Axes == { <<0, 1>>, <<1, 0>>, <<1, 1>>, <<1, -1>> }

InBoard(r, c) == r \in RowIdx /\ c \in ColIdx

\* the 4 contiguous cells starting at (r, c) along axis d all hold p
WindowHolds(b, r, c, d, p) ==
    \A k \in 0 .. 3 :
        /\ InBoard(r + d[1] * k, c + d[2] * k)
        /\ b[r + d[1] * k][c + d[2] * k] = p

\* 4 contiguous collinear cells of p, anywhere on b
HasFour(b, p) ==
    \E r \in RowIdx, c \in ColIdx :
        b[r][c] = p /\ \E d \in Axes : WindowHolds(b, r, c, d, p)

\* 4 contiguous collinear cells of p that include (row, col): the window
\* along axis d in which (row, col) is the k-th cell, for k = 0 .. 3
HasFourThrough(b, row, col, p) ==
    \E d \in Axes, k \in 0 .. 3 :
        WindowHolds(b, row - d[1] * k, col - d[2] * k, d, p)

Other(p) == IF p = 1 THEN 2 ELSE 1

Pieces(b) == Cardinality({ rc \in RowIdx \X ColIdx : b[rc[1]][rc[2]] # null })

\* the empty cells of column c, and the one nearest the floor
EmptyRows(b, c) == { r \in RowIdx : b[r][c] = null }
Lowest(b, c) == CHOOSE r \in EmptyRows(b, c) : \A q \in EmptyRows(b, c) : q <= r

\* a step in which a click on a column button placed a piece
AcceptedDrop == drops' = drops + 1

\* a step of the "New Game" button
ResetStep == ResetGame

----------------------------------------------------------------------------
\* C1: an accepted drop that neither fills the board nor gives the mover 4
\* collinear contiguous cells leaves the game in progress and hands the turn
\* to the other player; currentPlayer changes in no other step, except that
\* a reset sets it to 1.
C1_TurnPasses ==
    [][ LET p == gameState.currentPlayer
            b2 == gameState'.board
        IN  /\ AcceptedDrop
                  => \/ (~gameState'.gameOver /\ gameState'.currentPlayer = Other(p))
                     \/ isFull(b2)
                     \/ HasFour(b2, p)
            /\ (gameState'.currentPlayer # p)
                  => \/ ResetStep
                     \/ (AcceptedDrop /\ ~gameState'.gameOver
                           /\ gameState'.currentPlayer = Other(p)) ]_vars

\* the turn has passed twice: player 1 is to move again in a running game
C1_Witness ==
    /\ ~gameState.gameOver
    /\ gameState.currentPlayer = 1
    /\ drops >= 2
    /\ \E c \in ColIdx : gameState.board[ROWS - 1][c] = 2

----------------------------------------------------------------------------
\* C2: an accepted drop that completes a run of 4 for the mover sets winner
\* to the mover, gameOver to true, winningCells to a non-empty list and
\* leaves currentPlayer alone; winner is non-empty only when gameOver is
\* true, and it becomes non-empty only in such a drop.
C2_State ==
    gameState.winner # null
        => gameState.gameOver /\ HasFour(gameState.board, gameState.winner)

C2_WinRecorded ==
    /\ []C2_State
    /\ [][ LET p == gameState.currentPlayer
               b2 == gameState'.board
           IN  /\ (AcceptedDrop /\ HasFour(b2, p))
                     => /\ gameState'.winner = p
                        /\ gameState'.gameOver
                        /\ gameState'.winningCells # << >>
                        /\ gameState'.currentPlayer = p
               /\ (gameState'.winner # null /\ gameState.winner = null)
                     => (AcceptedDrop /\ HasFour(b2, p) /\ gameState'.winner = p)
         ]_vars

\* each player has won a game
C2_Witness ==
    /\ gameState.winner = 2
    /\ gameState.currentPlayer = 2
    /\ gameState.gameOver
    /\ gameState.winningCells # << >>

----------------------------------------------------------------------------
\* C3: an accepted drop that fills the last empty cell without a run of 4
\* for the mover ends the game as a draw (gameOver, no winner, no winning
\* cells, currentPlayer unchanged); if it does complete a run of 4 the mover
\* wins.
C3_Draw ==
    [][ LET p == gameState.currentPlayer
            b2 == gameState'.board
        IN  (AcceptedDrop /\ isFull(b2))
               => IF HasFour(b2, p)
                  THEN gameState'.gameOver /\ gameState'.winner = p
                  ELSE /\ gameState'.gameOver
                       /\ gameState'.winner = null
                       /\ gameState'.winningCells = << >>
                       /\ gameState'.currentPlayer = p ]_vars

\* a drawn game: the board is full and nobody has 4 in a row
C3_Witness ==
    /\ isFull(gameState.board)
    /\ gameState.gameOver
    /\ gameState.winner = null
    /\ drops > 0

\* the last piece of the board won the game
C3_LastPieceWins ==
    isFull(gameState.board) /\ gameState.winner # null /\ drops > 0

----------------------------------------------------------------------------
\* C4: once gameOver is true, dropPiece(col) leaves the GameState unchanged
\* for every col, and gameOver stays true in every step but a reset.
C4_NoDropChanges ==
    gameState.gameOver
        => \A col \in InputCols : dropPiece(gameState, col) = gameState

C4_Frozen ==
    /\ []C4_NoDropChanges
    /\ [][ gameState.gameOver
             => (gameState' = gameState \/ ResetStep) ]_vars

\* a finished game in which some column still has room
C4_Witness ==
    /\ gameState.gameOver
    /\ drops > 0
    /\ \E c \in ColIdx : gameState.board[0][c] = null

----------------------------------------------------------------------------
\* C5: an accepted drop changes exactly one cell of the board: the empty
\* cell of the clicked column with the largest row index, which takes the
\* mover's identity; every other cell keeps its value.
C5_OneCell ==
    [][ AcceptedDrop =>
          \E c \in ColIdx :
             /\ EmptyRows(gameState.board, c) # {}
             /\ dropAnimation' = animationAt(c, Lowest(gameState.board, c))
             /\ gameState'.board =
                   [gameState.board EXCEPT
                       ![Lowest(gameState.board, c)][c] = gameState.currentPlayer]
      ]_vars

\* a piece has landed on top of another piece
C5_Witness ==
    /\ drops >= 2
    /\ \E c \in ColIdx :
          /\ gameState.board[ROWS - 2][c] # null
          /\ dropAnimation = animationAt(c, ROWS - 2)

----------------------------------------------------------------------------
\* C6: no column holds more than ROWS pieces, and every occupied cell has
\* all the cells below it in its column occupied.
C6_NoFloating ==
    /\ DOMAIN gameState.board = RowIdx
    /\ \A r \in RowIdx : DOMAIN gameState.board[r] = ColIdx
    /\ \A c \in ColIdx :
          /\ Cardinality({ r \in RowIdx : gameState.board[r][c] # null }) <= ROWS
          /\ \A r \in RowIdx :
                gameState.board[r][c] # null
                   => \A q \in RowIdx : q > r => gameState.board[q][c] # null

\* a stack of three pieces next to an empty column
C6_Witness ==
    /\ drops >= 3
    /\ \E c \in ColIdx :
          /\ gameState.board[ROWS - 3][c] # null
          /\ gameState.board[ROWS - 4][c] = null

----------------------------------------------------------------------------
\* C7: dropPiece(col) on a column whose row-0 cell is occupied leaves the
\* whole GameState unchanged.
C7_FullColumn ==
    \A col \in ColIdx :
        gameState.board[0][col] # null => dropPiece(gameState, col) = gameState

\* a running game with a full column
C7_Witness ==
    /\ ~gameState.gameOver
    /\ drops > 0
    /\ \E col \in ColIdx : gameState.board[0][col] # null

----------------------------------------------------------------------------
\* C8: winningCells is empty, or holds exactly 4 distinct in-bounds
\* coordinates, each a cell of winner, consecutive entries differing by one
\* and the same unit step along one of the four axes.
C8_WinningCells ==
    LET w == gameState.winningCells
    IN  w # << >> =>
          /\ Len(w) = 4
          /\ Cardinality({ w[k] : k \in 1 .. 4 }) = 4
          /\ gameState.winner \in Player
          /\ \A k \in 1 .. 4 :
                /\ InBoard(w[k][1], w[k][2])
                /\ gameState.board[w[k][1]][w[k][2]] = gameState.winner
          /\ \E d \in Axes : \E sg \in {1, -1} :
                \A k \in 1 .. 3 :
                    /\ w[k + 1][1] - w[k][1] = sg * d[1]
                    /\ w[k + 1][2] - w[k][2] = sg * d[2]

\* a win whose last piece did not land at the negative end of the run
C8_Witness ==
    /\ gameState.winningCells # << >>
    /\ \E a \in dropAnimation :
          <<a.row, a.col>> # gameState.winningCells[1]

----------------------------------------------------------------------------
\* C9: for every cell (row, col) of the board holding a player p,
\* checkWinner(board, row, col, p) is non-empty exactly when 4 contiguous
\* collinear cells that include (row, col) all hold p.
C9_Detection ==
    \A row \in RowIdx, col \in ColIdx :
        LET p == gameState.board[row][col]
        IN  p \in Player =>
              ((checkWinner(gameState.board, row, col, p) # << >>)
                  <=> HasFourThrough(gameState.board, row, col, p))

\* a run of 7 on the floor, closed in its middle: both walks stop at their
\* third cell; detection answers no on the loser's cells
C9_Witness ==
    /\ gameState.winner = 1
    /\ \A c \in ColIdx : gameState.board[ROWS - 1][c] = 1
    /\ checkWinner(gameState.board, ROWS - 1, 3, 1) # << >>
    /\ \E row \in RowIdx, col \in ColIdx :
          /\ gameState.board[row][col] = 2
          /\ checkWinner(gameState.board, row, col, 2) = << >>

----------------------------------------------------------------------------
\* C10: resetGame, in any state, yields exactly the initial state (empty
\* board, player 1, no winner, no winning cells, not over); it is always
\* possible and every column accepts a drop afterwards.
C10_Reset ==
    /\ [](ENABLED ResetGame)
    /\ [][ ResetStep =>
             /\ gameState' = initialState
             /\ \A r \in RowIdx, c \in ColIdx : gameState'.board[r][c] = null
             /\ \A c \in ColIdx : accepts(gameState', c) ]_vars

\* the initial state again, after a game was played
C10_Witness ==
    /\ gameState = initialState
    /\ timers > 0

----------------------------------------------------------------------------
\* C11: dropPiece calls are serialised: for any sequence of column clicks,
\* two clicks handled before the component re-renders included, the number
\* of pieces on the board equals the number of accepted drops, and an
\* accepted drop keeps every piece that was on the board.
C11_Serialised ==
    Pieces(gameState.board) = drops

----------------------------------------------------------------------------
\* The four axes by their geometry on the board (row 0 is the top row)

Horizontal == <<0, 1>>
Vertical == <<1, 0>>
\* row and column indices increase together: (0,0), (1,1), (2,2), (3,3)
DiagBackslash == <<1, 1>>
\* the row index decreases as the column index increases
DiagSlash == <<1, -1>>

\* 4 contiguous cells of p along axis d that include (row, col)
RunThrough(b, row, col, d, p) ==
    \E k \in 0 .. 3 : WindowHolds(b, row - d[1] * k, col - d[2] * k, d, p)

\* w is 4 cells in a line along axis d, in either direction
Along(w, d) ==
    /\ Len(w) = 4
    /\ \E sg \in {1, -1} : \A k \in 1 .. 3 :
          /\ w[k + 1][1] - w[k][1] = sg * d[1]
          /\ w[k + 1][2] - w[k][2] = sg * d[2]

\* a won game whose animation still marks the cell of the winning drop
JustWon == gameState.winner # null /\ dropAnimation # noAnimation
LastCell == CHOOSE a \in dropAnimation : TRUE

----------------------------------------------------------------------------
\* C12: when the winning drop has runs of 4 through its cell on several
\* axes, winningCells lie on the horizontal axis if it qualifies, else on
\* the vertical axis if it qualifies, and on a diagonal only when neither
\* does.
C12_AxisPriority ==
    JustWon =>
        LET b == gameState.board
            w == gameState.winningCells
            p == gameState.winner
            h == RunThrough(b, LastCell.row, LastCell.col, Horizontal, p)
            v == RunThrough(b, LastCell.row, LastCell.col, Vertical, p)
        IN  /\ h => Along(w, Horizontal)
            /\ (~h /\ v) => Along(w, Vertical)
            /\ (~h /\ ~v) => (Along(w, DiagBackslash) \/ Along(w, DiagSlash))

\* one drop closed a horizontal and a vertical run
C12_Witness ==
    /\ JustWon
    /\ RunThrough(gameState.board, LastCell.row, LastCell.col, Horizontal,
                  gameState.winner)
    /\ RunThrough(gameState.board, LastCell.row, LastCell.col, Vertical,
                  gameState.winner)

\* one drop closed a vertical run and a diagonal
C12_VerticalAndDiagonal ==
    /\ JustWon
    /\ RunThrough(gameState.board, LastCell.row, LastCell.col, Vertical,
                  gameState.winner)
    /\ \/ RunThrough(gameState.board, LastCell.row, LastCell.col,
                     DiagSlash, gameState.winner)
       \/ RunThrough(gameState.board, LastCell.row, LastCell.col,
                     DiagBackslash, gameState.winner)

\* one drop closed a horizontal run and a diagonal
C12_HorizontalAndDiagonal ==
    /\ JustWon
    /\ RunThrough(gameState.board, LastCell.row, LastCell.col, Horizontal,
                  gameState.winner)
    /\ \/ RunThrough(gameState.board, LastCell.row, LastCell.col,
                     DiagSlash, gameState.winner)
       \/ RunThrough(gameState.board, LastCell.row, LastCell.col,
                     DiagBackslash, gameState.winner)

----------------------------------------------------------------------------
\* C13: when one drop completes a run of 4 on both diagonals and on neither
\* the horizontal nor the vertical axis, all of winningCells lie on diagonal
\* "/" (row index decreasing as the column index increases).
C13_SlashFirst ==
    LET b == gameState.board
        p == gameState.winner
    IN  ( /\ JustWon
          /\ RunThrough(b, LastCell.row, LastCell.col, DiagSlash, p)
          /\ RunThrough(b, LastCell.row, LastCell.col, DiagBackslash, p)
          /\ ~RunThrough(b, LastCell.row, LastCell.col, Horizontal, p)
          /\ ~RunThrough(b, LastCell.row, LastCell.col, Vertical, p) )
        => Along(gameState.winningCells, DiagSlash)

----------------------------------------------------------------------------
\* C14: on the first qualifying axis (in the order of the source's
\* directions) the run through the dropped cell is ordered from its
\* negative-direction end (smaller column on the horizontal axis, smaller
\* row on the three others), and winningCells is exactly the first 4 cells
\* of that run, in that order.
AxisOrder == <<Horizontal, Vertical, DiagBackslash, DiagSlash>>

FirstAxis(b, row, col, p) ==
    AxisOrder[CHOOSE i \in 1 .. 4 :
                 /\ RunThrough(b, row, col, AxisOrder[i], p)
                 /\ \A j \in 1 .. (i - 1) :
                       ~RunThrough(b, row, col, AxisOrder[j], p)]

Holds(b, r, c, p) == InBoard(r, c) /\ b[r][c] = p

\* how far the run of p extends from (row, col) against the direction d
NegExtent(b, row, col, d, p) ==
    CHOOSE n \in 0 .. (COLS - 1) :
        /\ \A j \in 1 .. n : Holds(b, row - d[1] * j, col - d[2] * j, p)
        /\ ~Holds(b, row - d[1] * (n + 1), col - d[2] * (n + 1), p)

C14_FirstFour ==
    JustWon =>
        LET b == gameState.board
            p == gameState.winner
            d == FirstAxis(b, LastCell.row, LastCell.col, p)
            n == NegExtent(b, LastCell.row, LastCell.col, d, p)
        IN  gameState.winningCells =
               [i \in 1 .. 4 |-> <<LastCell.row + d[1] * (i - 1 - n),
                                   LastCell.col + d[2] * (i - 1 - n)>>]

\* a run of 5 or more closed from inside: the dropped cell is not the first
\* winning cell and the run goes on past the fourth
C14_Witness ==
    /\ JustWon
    /\ <<LastCell.row, LastCell.col>> # gameState.winningCells[1]
    /\ LET w == gameState.winningCells
       IN  Holds(gameState.board, 2 * w[4][1] - w[3][1], 2 * w[4][2] - w[3][2],
                 gameState.winner)

\* a diagonal closed at its larger-row end, reported from the smaller-row end
C14_DiagonalFromTop ==
    /\ JustWon
    /\ Along(gameState.winningCells, DiagBackslash)
    /\ <<LastCell.row, LastCell.col>> = gameState.winningCells[4]

\* a vertical win: the dropped cell first, then the three cells below it
C14_VerticalFromTop ==
    /\ JustWon
    /\ Along(gameState.winningCells, Vertical)
    /\ <<LastCell.row, LastCell.col>> = gameState.winningCells[1]
    /\ gameState.winningCells[4][1] = LastCell.row + 3

----------------------------------------------------------------------------
\* C15: dropPiece(col) with col outside [0, COLS) changes nothing: the
\* GameState is the same and the board keeps ROWS rows of COLS cells.
C15_OutOfRange ==
    \A col \in InputCols \ ColIdx :
        LET after == dropPiece(gameState, col)
        IN  /\ after = gameState
            /\ DOMAIN after.board = RowIdx
            /\ \A r \in RowIdx : DOMAIN after.board[r] = ColIdx

\* a running game with room in every column: nothing but the range check
\* of the scan stands between the call and a placement
C15_Witness ==
    /\ ~gameState.gameOver
    /\ drops > 0
    /\ \A c \in ColIdx : gameState.board[0][c] = null
    /\ \A col \in InputCols \ ColIdx : ~accepts(gameState, col)

----------------------------------------------------------------------------
\* C16: the expiry of a drop-animation timer changes dropAnimation only:
\* board, currentPlayer, winner, winningCells and gameOver keep their
\* values, in every interleaving with dropPiece and resetGame.
TimerStep == timers' = timers - 1

C16_TimerFrame ==
    [][ TimerStep => (gameState' = gameState /\ dropAnimation' = noAnimation)
      ]_vars

\* the timer of an earlier drop has expired after a later drop: it cleared
\* the later drop's animation while that drop's own timer is still pending
C16_Witness ==
    /\ drops >= 1
    /\ timers >= 1
    /\ dropAnimation = noAnimation
    /\ gameState.board # emptyBoard

----------------------------------------------------------------------------
\* C17: the board holds 4 contiguous collinear cells of one player
\* iff winner is non-empty, and then they are the winner's; a game in
\* progress holds no 4-in-a-row, and a draw (gameOver, no winner) has a full
\* board with no 4-in-a-row of either player.
C17_FourIffWinner ==
    LET b == gameState.board
    IN  /\ (gameState.winner # null) <=> (\E p \in Player : HasFour(b, p))
        /\ \A p \in Player : HasFour(b, p) => gameState.winner = p
        /\ ~gameState.gameOver => \A p \in Player : ~HasFour(b, p)
        /\ (gameState.gameOver /\ gameState.winner = null)
              => (isFull(b) /\ \A p \in Player : ~HasFour(b, p))

\* a win just recorded: the four on the board belong to the winner
C17_Witness ==
    /\ gameState.winner # null
    /\ drops > 0
    /\ HasFour(gameState.board, gameState.winner)
    /\ ~HasFour(gameState.board, Other(gameState.winner))

\* a draw just recorded: 42 pieces and no four
C17_DrawReached ==
    /\ gameState.gameOver
    /\ gameState.winner = null
    /\ drops > 0
    /\ isFull(gameState.board)

----------------------------------------------------------------------------
\* C18: player 1 has as many pieces as player 2, or one more; while
\* the game runs, currentPlayer is 1 exactly when the counts are equal and 2
\* exactly when player 1 has one more; once gameOver is true, currentPlayer
\* is the player who made the last move.
Count(b, p) == Cardinality({ rc \in RowIdx \X ColIdx : b[rc[1]][rc[2]] = p })

\* the player to whom the counts attribute the last piece placed
LastMover(b) == IF Count(b, 1) = Count(b, 2) THEN 2 ELSE 1

C18_Parity ==
    LET b  == gameState.board
        n1 == Count(b, 1)
        n2 == Count(b, 2)
    IN  /\ n1 - n2 \in {0, 1}
        /\ ~gameState.gameOver =>
              /\ (gameState.currentPlayer = 1) <=> (n1 = n2)
              /\ (gameState.currentPlayer = 2) <=> (n1 = n2 + 1)
        /\ (gameState.gameOver /\ n1 + n2 > 0) =>
              gameState.currentPlayer = LastMover(b)
        /\ (gameState.gameOver /\ dropAnimation # noAnimation) =>
              b[LastCell.row][LastCell.col] = gameState.currentPlayer

\* the game has just ended on a move of player 2
C18_Witness ==
    /\ gameState.gameOver
    /\ dropAnimation # noAnimation
    /\ gameState.board[LastCell.row][LastCell.col] = 2
    /\ Count(gameState.board, 1) = Count(gameState.board, 2)

\* the game has just ended on a move of player 1
C18_PlayerOneEnds ==
    /\ gameState.gameOver
    /\ dropAnimation # noAnimation
    /\ gameState.board[LastCell.row][LastCell.col] = 1
    /\ Count(gameState.board, 1) = Count(gameState.board, 2) + 1

----------------------------------------------------------------------------
\* C19: for every col in [0, COLS), canDropInColumn(col) is true iff
\* dropPiece(col) changes the GameState, i.e. iff gameOver is false and
\* column col has an empty cell: no button is enabled for a drop the engine
\* ignores, none is disabled for a drop the engine would accept.
C19_GuardAgrees ==
    \A col \in ColIdx :
        /\ canDropInColumn(rendered, col)
              <=> (dropPiece(gameState, col) # gameState)
        /\ canDropInColumn(rendered, col)
              <=> (~gameState.gameOver /\ EmptyRows(gameState.board, col) # {})

\* a running game with a full column next to a column that has room
C19_Witness ==
    /\ ~gameState.gameOver
    /\ drops > 0
    /\ \E c \in ColIdx : ~canDropInColumn(rendered, c)
    /\ \E c \in ColIdx : canDropInColumn(rendered, c)

\* a finished game with room left on the board: every button is disabled
C19_FinishedWithRoom ==
    /\ gameState.gameOver
    /\ drops > 0
    /\ \E c \in ColIdx : gameState.board[0][c] = null
    /\ \A c \in ColIdx : ~canDropInColumn(rendered, c)

----------------------------------------------------------------------------
\* C20: a full board implies gameOver, so while gameOver is false some
\* column accepts a drop; and every accepted drop adds one piece to a board
\* of ROWS x COLS cells, so a run of accepted drops without reset reaches
\* gameOver after at most ROWS x COLS = 42 of them.
BoardFull == Pieces(gameState.board) = ROWS * COLS

C20_NeverStuck ==
    /\ [](/\ BoardFull => gameState.gameOver
          /\ ~gameState.gameOver =>
                \E col \in ColIdx : dropPiece(gameState, col) # gameState
          /\ Pieces(gameState.board) <= ROWS * COLS)
    /\ [][ AcceptedDrop =>
             /\ ~gameState.gameOver
             /\ Pieces(gameState'.board) = Pieces(gameState.board) + 1
         ]_vars

\* the 42nd piece has just been placed and ended the game
C20_Witness ==
    /\ BoardFull
    /\ gameState.gameOver
    /\ dropAnimation # noAnimation

\* a running game in which a single column still accepts a drop
C20_OneColumnLeft ==
    /\ ~gameState.gameOver
    /\ drops > 0
    /\ Cardinality({ c \in ColIdx : accepts(gameState, c) }) = 1

====
